---- MODULE Spec2Model ----
(***************************************************************************)
(* A model of the try-partialord crate: the fallible stable merge sort     *)
(* (src/src/sort/mod.rs), the unimplemented unstable sort entry points,    *)
(* the fallible binary search (src/src/binary_search.rs) and the min/max   *)
(* selection fold (src/src/min_max.rs).                                    *)
(*                                                                         *)
(* Slices are sequences; the code's 0-based index i is position i + 1.     *)
(* An element is a record [k, nan, id]: k is its ordering key, nan says    *)
(* the value is incomparable with every value (an f32 NaN), and id is the  *)
(* position the element had in the input, which tells apart elements that  *)
(* compare Equal.                                                          *)
(***************************************************************************)
EXTENDS Integers, Sequences, FiniteSets

VARIABLES
    op,         \* the entry point under execution
    cmpKind,    \* which comparator the caller supplied
    failAt,     \* for the "fail_at" comparator: the call that returns None
    orig,       \* the slice as it was when the call started
    v,          \* the slice (raw memory: may hold a stale copy mid-insertion)
    pc,         \* position in merge_sort / insert_head / merge
    result,     \* "running", or what the entry point returned
    calls,      \* comparator calls made so far
    noneSeen,   \* the comparator has returned None at least once
    afterNone,  \* comparator calls made after the first None
    i,          \* merge_sort short path: the loop variable
    caller,     \* insert_head: the call site to return to
    ihBase,     \* insert_head: the slice is v[ihBase..ihEnd]
    ihEnd,
    ihJ,        \* insert_head: the loop variable `i` of `for i in 2..v.len()`
    tmp,        \* insert_head: the element read out of v[0]
    holeDest,   \* insert_head: InsertionHole.dest (an index of the whole slice)
    runs,       \* merge_sort: the stack of runs, records [start, len]
    start,      \* merge_sort: `start`
    end,        \* merge_sort: `end`
    buf,        \* merge_sort: the elements copied into the scratch buffer
    mR,         \* merge_sort: the index `r` collapse returned
    mBase,      \* merge: the slice is v[mBase..mBase + mLen]
    mLen,
    mMid,
    hStart,     \* merge: MergeHole.start (an index of buf)
    hEnd,       \* merge: MergeHole.end (an index of buf)
    hDest,      \* merge: MergeHole.dest (an index of the whole slice)
    mRight,     \* merge, forward: `right`
    mOut,       \* merge, backward: `out`
    bs,         \* binary search: its locals, a record
    sel         \* selection fold: its locals, a record

sortVars == <<orig, v, pc, calls, noneSeen, afterNone, i, caller, ihBase, ihEnd,
              ihJ, tmp, holeDest, runs, start, end, buf, mR, mBase, mLen, mMid,
              hStart, hEnd, hDest, mRight, mOut>>

vars == <<op, cmpKind, failAt, result, sortVars, bs, sel>>

(***************************************************************************)
(* Program constants.                                                      *)
(***************************************************************************)
MAX_INSERTION == 20

MIN_RUN == 10

(***************************************************************************)
(* Bounds of the model.                                                    *)
(***************************************************************************)
\* Short inputs: every sequence of at most MaxShortLen elements whose keys
\* are NaN or 1..MaxShortKey.
MaxShortLen == 4

MaxShortKey == 3

\* Long inputs have MAX_INSERTION + 1 .. MAX_INSERTION + MaxLongExtra elements.
MaxLongExtra == 1

\* The "fail_at" comparator returns None on call number 1..MaxFailAt.
MaxFailAt == 6

(***************************************************************************)
(* Elements and 0-based indexing.                                          *)
(***************************************************************************)
Elem(k, id) == [k |-> k, nan |-> FALSE, id |-> id]

NaNElem(id) == [k |-> 0, nan |-> TRUE, id |-> id]

NoElem == [k |-> 0, nan |-> FALSE, id |-> 0 - 1]

At(s, n) == s[n + 1]

Put(s, n, e) == [s EXCEPT ![n + 1] = e]

\* s[a..b) of the code.
Slice(s, a, b) == [n \in 1..(b - a) |-> s[a + n]]

\* s with t written over s[a..a + Len(t)) (ptr::copy_nonoverlapping into s).
CopyInto(s, a, t) ==
    [n \in 1..Len(s) |-> IF n > a /\ n <= a + Len(t) THEN t[n - a] ELSE s[n]]

\* A faulty merge_sort: a strictly descending run is left as found.
ReverseRangeSkipped(s, a, b) == s

\* s with s[a..b) reversed (<[T]>::reverse).
ReverseRange(s, a, b) ==
    [n \in 1..Len(s) |-> IF n > a /\ n <= b THEN s[a + b + 1 - n] ELSE s[n]]

(***************************************************************************)
(* The comparator.                                                         *)
(***************************************************************************)
\* PartialOrd::partial_cmp on the element type (f32-like: a NaN is
\* incomparable with everything, itself included).
PartialCmp(a, b) ==
    IF a.nan \/ b.nan THEN "None"
    ELSE IF a.k < b.k THEN "Less"
    ELSE IF a.k > b.k THEN "Greater"
    ELSE "Equal"

\* A faulty closure: Equal is reported as "less" too.
IsLessNaturalOrEqual(a, b) ==
    LET c == PartialCmp(a, b)
    IN  IF c = "None" THEN "N" ELSE IF c \in {"Less", "Equal"} THEN "T" ELSE "F"

\* The closure try_sort hands to merge_sort: "T" is Some(true), "F" is
\* Some(false), "N" is None.
IsLessNatural(a, b) ==
    LET c == PartialCmp(a, b)
    IN  IF c = "None" THEN "N" ELSE IF c = "Less" THEN "T" ELSE "F"

\* The key function of the try_sort_by_key callers modelled here: an element
\* without a key (nan) gives None, any other gives Some(k).
KeyOf(a) == IF a.nan THEN [some |-> FALSE, k |-> 0] ELSE [some |-> TRUE, k |-> a.k]

\* Option<K>::partial_cmp, as derived: None is less than every Some.
OptionPartialCmp(x, y) ==
    IF ~x.some /\ ~y.some THEN "Equal"
    ELSE IF ~x.some THEN "Less"
    ELSE IF ~y.some THEN "Greater"
    ELSE IF x.k < y.k THEN "Less"
    ELSE IF x.k > y.k THEN "Greater"
    ELSE "Equal"

\* The closure try_sort_by_key hands to merge_sort.
IsLessByKey(a, b) ==
    LET c == OptionPartialCmp(KeyOf(a), KeyOf(b))
    IN  IF c = "None" THEN "N" ELSE IF c = "Less" THEN "T" ELSE "F"

\* One call of is_less(a, b), the call number calls + 1 of this invocation.
Compare(a, b) ==
    CASE cmpKind = "natural"     -> IsLessNatural(a, b)
      [] cmpKind = "by_key"      -> IsLessByKey(a, b)
      [] cmpKind = "always_none" -> "N"
      [] cmpKind = "fail_at"     -> IF calls + 1 = failAt THEN "N"
                                    ELSE IsLessNatural(a, b)

\* Bookkeeping of a comparator call that returned r.
Called(r) ==
    /\ calls' = calls + 1
    /\ noneSeen' = (noneSeen \/ r = "N")
    /\ afterNone' = afterNone + (IF noneSeen THEN 1 ELSE 0)

NotCalled == UNCHANGED <<calls, noneSeen, afterNone>>

(***************************************************************************)
(* insert_head                                                             *)
(***************************************************************************)
\* A faulty insert_head: the element taken out of v[0] is not written back.
InsertionHoleDropLost(vv, dest, t) == vv

\* InsertionHole::drop: copies `src` (tmp) into `dest`.
InsertionHoleDrop(vv, dest, t) == Put(vv, dest, t)

ihVars == <<caller, ihBase, ihEnd, ihJ, tmp, holeDest>>

mergeVars == <<mR, mBase, mLen, mMid, hStart, hEnd, hDest, mRight, mOut>>

\* insert_head has returned; merge_sort discards what it returned and goes on.
IhReturn ==
    /\ UNCHANGED <<caller, ihEnd>>
    /\ IF caller = "short"
       THEN IF i > 0
            THEN /\ i' = i - 1
                 /\ ihBase' = i - 1
                 /\ pc' = "ih_enter"
                 /\ result' = result
            ELSE /\ i' = i
                 /\ ihBase' = ihBase
                 /\ pc' = "done"
                 /\ result' = "Ok"
       ELSE /\ i' = i
            /\ ihBase' = ihBase
            /\ pc' = "extend"
            /\ result' = result

\* insert_head(v[ihBase..ihEnd]) up to its first comparison.
IhEnter ==
    /\ pc = "ih_enter"
    /\ UNCHANGED <<op, cmpKind, failAt, orig, runs, start, end, buf, mergeVars, bs, sel>>
    /\ IF ihEnd - ihBase >= 2
       THEN LET r == Compare(At(v, ihBase + 1), At(v, ihBase))
            IN  /\ Called(r)
                /\ IF r = "T"
                   THEN /\ tmp' = At(v, ihBase)
                        /\ holeDest' = ihBase + 1
                        /\ v' = Put(v, ihBase, At(v, ihBase + 1))
                        /\ ihJ' = 2
                        /\ pc' = "ih_loop"
                        /\ UNCHANGED <<i, caller, ihBase, ihEnd, result>>
                   ELSE /\ UNCHANGED <<v, tmp, holeDest, ihJ>>
                        /\ IhReturn
       ELSE /\ NotCalled
            /\ UNCHANGED <<v, tmp, holeDest, ihJ>>
            /\ IhReturn

\* One iteration of insert_head's loop, or its end.
IhLoop ==
    /\ pc = "ih_loop"
    /\ UNCHANGED <<op, cmpKind, failAt, orig, runs, start, end, buf, mergeVars, bs, sel>>
    /\ IF ihJ < ihEnd - ihBase
       THEN LET r == Compare(At(v, ihBase + ihJ), tmp)
            IN  /\ Called(r)
                /\ IF r = "T"
                   THEN /\ v' = Put(v, ihBase + ihJ - 1, At(v, ihBase + ihJ))
                        /\ holeDest' = ihBase + ihJ
                        /\ ihJ' = ihJ + 1
                        /\ UNCHANGED <<pc, i, caller, ihBase, ihEnd, tmp, result>>
                   ELSE /\ v' = InsertionHoleDrop(v, holeDest, tmp)
                        /\ UNCHANGED <<tmp, holeDest, ihJ>>
                        /\ IhReturn
       ELSE /\ NotCalled
            /\ v' = InsertionHoleDrop(v, holeDest, tmp)
            /\ UNCHANGED <<tmp, holeDest, ihJ>>
            /\ IhReturn

(***************************************************************************)
(* merge                                                                   *)
(***************************************************************************)
\* MergeHole::drop: copies buf[hs..he) into v[dest..].
MergeHoleDrop(vv, b, hs, he, dest) == CopyInto(vv, dest, Slice(b, hs, he))

\* A faulty forward merge: it asks is_less(left, right) and so lets the right
\* run's element out first when the two are equal.
MergeFwdPickTiesRight(rt, lf) ==
    LET r == Compare(lf, rt)
    IN  IF r = "N" THEN "abort" ELSE IF r = "T" THEN "left" ELSE "right"

\* Forward merge, `if is_less(&*right, &**left)?`: which run's head goes out
\* next ("abort" is the `?`).  On equal elements the left run's does.
MergeFwdPick(rt, lf) ==
    LET r == Compare(rt, lf)
    IN  IF r = "N" THEN "abort" ELSE IF r = "T" THEN "right" ELSE "left"

\* Backward merge, `if is_less(&*right.offset(-1), &*left.offset(-1))?`: which
\* run's last element goes out next.  On equal elements the right run's does.
MergeBwdPick(rt, lf) ==
    LET r == Compare(rt, lf)
    IN  IF r = "N" THEN "abort" ELSE IF r = "T" THEN "left" ELSE "right"

\* A faulty update of the stack: the union of the two runs is given the start
\* of the right one.
MergeReturnKeepsRightStart ==
    /\ runs' = LET left  == At(runs, mR + 1)
                   right == At(runs, mR)
                   one   == Put(runs, mR, [start |-> right.start,
                                           len   |-> left.len + right.len])
               IN  [n \in 1..(Len(one) - 1) |->
                       IF n <= mR + 1 THEN one[n] ELSE one[n + 1]]
    /\ pc' = "collapse"

\* merge has returned; merge_sort discards what it returned, replaces the two
\* runs by their union and asks collapse again.
MergeReturn ==
    /\ runs' = LET left  == At(runs, mR + 1)
                   right == At(runs, mR)
                   one   == Put(runs, mR, [start |-> left.start,
                                           len   |-> left.len + right.len])
               IN  [n \in 1..(Len(one) - 1) |->
                       IF n <= mR + 1 THEN one[n] ELSE one[n + 1]]
    /\ pc' = "collapse"

\* One iteration of the loop of merge's branch "the left run is shorter", or
\* its end.
MergeFwd ==
    /\ pc = "merge_fwd"
    /\ UNCHANGED <<op, cmpKind, failAt, orig, result, i, ihVars, start, end, buf,
                   mR, mBase, mLen, mMid, hEnd, mOut, bs, sel>>
    /\ IF hStart < hEnd /\ mRight < mBase + mLen
       THEN LET pick == MergeFwdPick(At(v, mRight), At(buf, hStart))
            IN  /\ Called(IF pick = "abort" THEN "N" ELSE "T")
                /\ IF pick = "abort"
                   THEN /\ v' = MergeHoleDrop(v, buf, hStart, hEnd, hDest)
                        /\ UNCHANGED <<hStart, hDest, mRight>>
                        /\ MergeReturn
                   ELSE IF pick = "right"
                   THEN /\ v' = Put(v, hDest, At(v, mRight))
                        /\ mRight' = mRight + 1
                        /\ hDest' = hDest + 1
                        /\ UNCHANGED <<hStart, runs, pc>>
                   ELSE /\ v' = Put(v, hDest, At(buf, hStart))
                        /\ hStart' = hStart + 1
                        /\ hDest' = hDest + 1
                        /\ UNCHANGED <<mRight, runs, pc>>
       ELSE /\ NotCalled
            /\ v' = MergeHoleDrop(v, buf, hStart, hEnd, hDest)
            /\ UNCHANGED <<hStart, hDest, mRight>>
            /\ MergeReturn

\* One iteration of the loop of merge's branch "the right run is shorter", or
\* its end.
MergeBwd ==
    /\ pc = "merge_bwd"
    /\ UNCHANGED <<op, cmpKind, failAt, orig, result, i, ihVars, start, end, buf,
                   mR, mBase, mLen, mMid, hStart, mRight, bs, sel>>
    /\ IF mBase < hDest /\ 0 < hEnd
       THEN LET pick == MergeBwdPick(At(buf, hEnd - 1), At(v, hDest - 1))
            IN  /\ Called(IF pick = "abort" THEN "N" ELSE "T")
                /\ IF pick = "abort"
                   THEN /\ v' = MergeHoleDrop(v, buf, hStart, hEnd, hDest)
                        /\ UNCHANGED <<hEnd, hDest, mOut>>
                        /\ MergeReturn
                   ELSE IF pick = "left"
                   THEN /\ v' = Put(v, mOut - 1, At(v, hDest - 1))
                        /\ hDest' = hDest - 1
                        /\ mOut' = mOut - 1
                        /\ UNCHANGED <<hEnd, runs, pc>>
                   ELSE /\ v' = Put(v, mOut - 1, At(buf, hEnd - 1))
                        /\ hEnd' = hEnd - 1
                        /\ mOut' = mOut - 1
                        /\ UNCHANGED <<hDest, runs, pc>>
       ELSE /\ NotCalled
            /\ v' = MergeHoleDrop(v, buf, hStart, hEnd, hDest)
            /\ UNCHANGED <<hEnd, hDest, mOut>>
            /\ MergeReturn

(***************************************************************************)
(* merge_sort                                                              *)
(***************************************************************************)
\* collapse's None.
NoMerge == 0 - 1

\* A faulty collapse: the invariants are enforced on the top three runs only.
CollapseTopThree(rs) ==
    LET n == Len(rs)
    IN  IF n >= 2
           /\ (\/ At(rs, n - 1).start = 0
               \/ At(rs, n - 2).len <= At(rs, n - 1).len
               \/ (n >= 3 /\ At(rs, n - 3).len <= At(rs, n - 2).len + At(rs, n - 1).len))
        THEN IF n >= 3 /\ At(rs, n - 3).len < At(rs, n - 1).len
             THEN n - 3
             ELSE n - 2
        ELSE NoMerge

\* A faulty collapse: a top run that starts at index 0 does not demand a
\* merge.
CollapseNoForce(rs) ==
    LET n == Len(rs)
    IN  IF n >= 2
           /\ (\/ At(rs, n - 2).len <= At(rs, n - 1).len
               \/ (n >= 3 /\ At(rs, n - 3).len <= At(rs, n - 2).len + At(rs, n - 1).len)
               \/ (n >= 4 /\ At(rs, n - 4).len <= At(rs, n - 3).len + At(rs, n - 2).len))
        THEN IF n >= 3 /\ At(rs, n - 3).len < At(rs, n - 1).len
             THEN n - 3
             ELSE n - 2
        ELSE NoMerge

\* collapse(&runs): the r such that runs[r] and runs[r + 1] are merged next,
\* or NoMerge.
Collapse(rs) ==
    LET n == Len(rs)
    IN  IF n >= 2
           /\ (\/ At(rs, n - 1).start = 0
               \/ At(rs, n - 2).len <= At(rs, n - 1).len
               \/ (n >= 3 /\ At(rs, n - 3).len <= At(rs, n - 2).len + At(rs, n - 1).len)
               \/ (n >= 4 /\ At(rs, n - 4).len <= At(rs, n - 3).len + At(rs, n - 2).len))
        THEN IF n >= 3 /\ At(rs, n - 3).len < At(rs, n - 1).len
             THEN n - 3
             ELSE n - 2
        ELSE NoMerge

IsStableSortOp == op \in {"try_sort", "try_sort_by", "try_sort_by_key"}

\* merge_sort up to its first loop: the short path starts its insertion loop
\* at i = len - 2; the long path allocates buf and starts with end = len.
MergeSortEntry ==
    /\ pc = "entry"
    /\ IsStableSortOp
    /\ NotCalled
    /\ UNCHANGED <<op, cmpKind, failAt, orig, v, ihJ, tmp, holeDest, start,
                   mergeVars, bs, sel>>
    /\ IF Len(v) <= MAX_INSERTION
       THEN /\ UNCHANGED <<runs, end, buf>>
            /\ IF Len(v) >= 2
               THEN /\ i' = Len(v) - 2
                    /\ ihBase' = Len(v) - 2
                    /\ ihEnd' = Len(v)
                    /\ caller' = "short"
                    /\ pc' = "ih_enter"
                    /\ result' = result
               ELSE /\ UNCHANGED <<i, ihBase, ihEnd, caller>>
                    /\ pc' = "done"
                    /\ result' = "Ok"
       ELSE /\ buf' = <<>>
            /\ runs' = <<>>
            /\ end' = Len(v)
            /\ pc' = "scan"
            /\ UNCHANGED <<i, ihBase, ihEnd, caller, result>>

\* The head of `while end > 0` and the first comparison of the run search;
\* with end = 0 the loop is over and merge_sort returns Some(()).
Scan ==
    /\ pc = "scan"
    /\ UNCHANGED <<op, cmpKind, failAt, orig, v, i, ihVars, runs, end, buf,
                   mergeVars, bs, sel>>
    /\ IF end > 0
       THEN IF end - 1 > 0
            THEN LET r == Compare(At(v, end - 1), At(v, end - 2))
                 IN  /\ Called(r)
                     /\ start' = end - 2
                     /\ IF r = "N"
                        THEN pc' = "done" /\ result' = "Err"
                        ELSE /\ pc' = (IF r = "T" THEN "desc_loop" ELSE "asc_loop")
                             /\ result' = result
            ELSE /\ NotCalled
                 /\ start' = end - 1
                 /\ pc' = "extend"
                 /\ result' = result
       ELSE /\ NotCalled
            /\ start' = start
            /\ pc' = "done"
            /\ result' = "Ok"

\* A comparison of the strictly descending run's search, or its end: the run
\* v[start..end] is reversed.
DescLoop ==
    /\ pc = "desc_loop"
    /\ UNCHANGED <<op, cmpKind, failAt, orig, i, ihVars, runs, end, buf,
                   mergeVars, bs, sel>>
    /\ IF start > 0
       THEN LET r == Compare(At(v, start), At(v, start - 1))
            IN  /\ Called(r)
                /\ IF r = "N"
                   THEN /\ pc' = "done" /\ result' = "Err"
                        /\ UNCHANGED <<v, start>>
                   ELSE IF r = "T"
                   THEN /\ start' = start - 1
                        /\ UNCHANGED <<v, pc, result>>
                   ELSE /\ v' = ReverseRange(v, start, end)
                        /\ pc' = "extend"
                        /\ UNCHANGED <<start, result>>
       ELSE /\ NotCalled
            /\ v' = ReverseRange(v, start, end)
            /\ pc' = "extend"
            /\ UNCHANGED <<start, result>>

\* A comparison of the non-descending run's search, or its end.
AscLoop ==
    /\ pc = "asc_loop"
    /\ UNCHANGED <<op, cmpKind, failAt, orig, v, i, ihVars, runs, end, buf,
                   mergeVars, bs, sel>>
    /\ IF start > 0
       THEN LET r == Compare(At(v, start), At(v, start - 1))
            IN  /\ Called(r)
                /\ IF r = "N"
                   THEN /\ pc' = "done" /\ result' = "Err"
                        /\ start' = start
                   ELSE IF r = "F"
                   THEN /\ start' = start - 1
                        /\ UNCHANGED <<pc, result>>
                   ELSE /\ pc' = "extend"
                        /\ UNCHANGED <<start, result>>
       ELSE /\ NotCalled
            /\ pc' = "extend"
            /\ UNCHANGED <<start, result>>

\* The head of `while start > 0 && end - start < MIN_RUN`: one more
\* insert_head, or the run is pushed and end moves to its start.
Extend ==
    /\ pc = "extend"
    /\ NotCalled
    /\ UNCHANGED <<op, cmpKind, failAt, orig, v, result, i, ihJ, tmp, holeDest,
                   buf, mergeVars, bs, sel>>
    /\ IF start > 0 /\ end - start < MIN_RUN
       THEN /\ start' = start - 1
            /\ ihBase' = start - 1
            /\ ihEnd' = end
            /\ caller' = "extend"
            /\ pc' = "ih_enter"
            /\ UNCHANGED <<runs, end>>
       ELSE /\ runs' = Append(runs, [start |-> start, len |-> end - start])
            /\ end' = start
            /\ pc' = "collapse"
            /\ UNCHANGED <<start, ihBase, ihEnd, caller>>

\* The head of `while let Some(r) = collapse(&runs)`: merge is entered on
\* v[left.start..right.start + right.len] with mid = left.len and has copied
\* its shorter run into buf; or the loop is over.
CollapseStep ==
    /\ pc = "collapse"
    /\ NotCalled
    /\ UNCHANGED <<op, cmpKind, failAt, orig, v, result, i, ihVars, runs, start,
                   end, bs, sel>>
    /\ LET r == Collapse(runs)
       IN  IF r = NoMerge
           THEN /\ pc' = "scan"
                /\ UNCHANGED <<buf, mergeVars>>
           ELSE LET left  == At(runs, r + 1)
                    right == At(runs, r)
                    base  == left.start
                    len   == right.start + right.len - left.start
                    mid   == left.len
                IN  /\ mR' = r
                    /\ mBase' = base
                    /\ mLen' = len
                    /\ mMid' = mid
                    /\ hStart' = 0
                    /\ IF mid <= len - mid
                       THEN /\ buf' = Slice(v, base, base + mid)
                            /\ hEnd' = mid
                            /\ hDest' = base
                            /\ mRight' = base + mid
                            /\ mOut' = mOut
                            /\ pc' = "merge_fwd"
                       ELSE /\ buf' = Slice(v, base + mid, base + len)
                            /\ hEnd' = len - mid
                            /\ hDest' = base + mid
                            /\ mOut' = base + len
                            /\ mRight' = mRight
                            /\ pc' = "merge_bwd"

(***************************************************************************)
(* Inputs.  A key code 0 stands for NaN.                                   *)
(***************************************************************************)
MkSeq(codes) ==
    [n \in 1..Len(codes) |->
        IF codes[n] = 0 THEN NaNElem(n - 1) ELSE Elem(codes[n], n - 1)]

ShortCodes == UNION {[1..n -> 0..MaxShortKey] : n \in 0..MaxShortLen}

ShortInputs == {MkSeq(c) : c \in ShortCodes}

ShortInputsNoNaN == {MkSeq(c) : c \in {d \in ShortCodes : \A n \in 1..Len(d) : d[n] # 0}}

\* The key at 0-based position j of a block of n elements: non-descending
\* with ties, strictly descending, all equal, or in no order (1 4 3 2 1 ...).
Pattern(p, n, j) ==
    CASE p = "asc"  -> 1 + (j \div 2)
      [] p = "desc" -> n - j
      [] p = "flat" -> 3
      [] p = "saw"  -> 1 + ((3 * j) % 4)

Patterns == {"asc", "desc", "flat", "saw"}

Block(p, n) == [j \in 1..n |-> Pattern(p, n, j - 1)]

LongLens == (MAX_INSERTION + 1)..(MAX_INSERTION + MaxLongExtra)

\* Two blocks, split anywhere.
TwoBlockCodes ==
    {Block(p, s) \o Block(q, L - s) :
        p \in Patterns, q \in Patterns, s \in 1..MAX_INSERTION, L \in LongLens}

\* The splits at which a NaN is then put at every position.
NaNSplits == {MIN_RUN \div 2, MIN_RUN, MIN_RUN + 1, MAX_INSERTION - MIN_RUN \div 2}

WithNaN(c, q) == [c EXCEPT ![q] = 0]

TwoBlockNaNCodes ==
    {WithNaN(Block(p, s) \o Block(q, L - s), at) :
        p \in Patterns, q \in Patterns, s \in NaNSplits, L \in LongLens,
        at \in 1..(MAX_INSERTION + 1)}

\* Three runs a, b, c (left to right) with b < c < a, so that the three are
\* on the stack together and collapse picks the lower pair.
ThreeBlockCodes ==
    {Block(p, MIN_RUN + 2) \o Block(q, MIN_RUN) \o Block(r, MIN_RUN + 1) :
        p \in Patterns, q \in Patterns, r \in Patterns}

LongInputs == {MkSeq(c) : c \in TwoBlockCodes \cup ThreeBlockCodes}

LongNaNInputs == {MkSeq(c) : c \in TwoBlockNaNCodes}

\* The inputs the "fail_at" comparator is run on in the long path.
LongFailInputs ==
    {MkSeq(Block(p, s) \o Block(q, MAX_INSERTION + 1 - s)) :
        p \in Patterns, q \in Patterns, s \in {MIN_RUN, MIN_RUN + 1}}

LongFailAts == {1 + 3 * n : n \in 0..(MIN_RUN + MaxFailAt)}

(***************************************************************************)
(* Initial states and the specification of the stable sort.                *)
(***************************************************************************)
BsIdle == [active |-> FALSE]

SelIdle == [active |-> FALSE]

IdleSort ==
    /\ pc = "entry"
    /\ result = "running"
    /\ calls = 0
    /\ noneSeen = FALSE
    /\ afterNone = 0
    /\ i = 0
    /\ caller = "none"
    /\ ihBase = 0
    /\ ihEnd = 0
    /\ ihJ = 0
    /\ tmp = NoElem
    /\ holeDest = 0
    /\ runs = <<>>
    /\ start = 0
    /\ end = 0
    /\ buf = <<>>
    /\ mR = 0
    /\ mBase = 0
    /\ mLen = 0
    /\ mMid = 0
    /\ hStart = 0
    /\ hEnd = 0
    /\ hDest = 0
    /\ mRight = 0
    /\ mOut = 0

InitSort ==
    /\ \/ /\ op = "try_sort"
          /\ cmpKind = "natural"
          /\ failAt = 0
          /\ orig \in ShortInputs \cup LongInputs \cup LongNaNInputs
       \/ /\ op = "try_sort_by"
          /\ cmpKind = "always_none"
          /\ failAt = 0
          /\ orig \in ShortInputsNoNaN \cup LongFailInputs
       \/ /\ op = "try_sort_by"
          /\ cmpKind = "fail_at"
          /\ \/ failAt \in 1..MaxFailAt /\ orig \in ShortInputsNoNaN
             \/ failAt \in LongFailAts /\ orig \in LongFailInputs
       \/ /\ op = "try_sort_by_key"
          /\ cmpKind = "by_key"
          /\ failAt = 0
          /\ orig \in ShortInputs \cup LongNaNInputs
    /\ v = orig
    /\ IdleSort
    /\ bs = BsIdle
    /\ sel = SelIdle

NextSort ==
    \/ MergeSortEntry
    \/ IhEnter
    \/ IhLoop
    \/ Scan
    \/ DescLoop
    \/ AscLoop
    \/ Extend
    \/ CollapseStep
    \/ MergeFwd
    \/ MergeBwd

SpecSort == InitSort /\ [][NextSort]_vars

(***************************************************************************)
(* merge_sort's run stack under an arbitrary closure.                      *)
(*                                                                         *)
(* With a closure that may return anything, the run search and its         *)
(* extension by insert_head can end on any start that the loop conditions  *)
(* allow, and a merge can leave any arrangement of the two runs.  Here the *)
(* elements are not followed (every key is the same), only end, start, the *)
(* run stack and what merge is handed: the run search with its extension,  *)
(* and the loop of merge, are one step each.                               *)
(***************************************************************************)
\* The longest slice whose run stack is followed.
MaxDeepLen == 114

DeepLens == {MAX_INSERTION + 1, MaxDeepLen \div 2, MaxDeepLen}

\* The longest slice on which the return of merge_sort is followed.
MaxFairLen == 80

FairLens == {MAX_INSERTION + 1, MaxFairLen \div 2, MaxFairLen}

DeepInputs(lens) == {MkSeq(Block("flat", n)) : n \in lens}

\* The starts the run search and `while start > 0 && end - start < MIN_RUN`
\* can end on: index 0, or any index that leaves MIN_RUN elements or more.
RunStarts(e) == {s \in 0..(e - 1) : s = 0 \/ e - s >= MIN_RUN}

\* The head of `while end > 0`, the run search and the extension of the run:
\* start is found, or a comparison of the search returned None, or the loop
\* is over.
RunFound ==
    /\ pc = "scan"
    /\ NotCalled
    /\ UNCHANGED <<op, cmpKind, failAt, orig, v, i, ihVars, runs, end, buf,
                   mergeVars, bs, sel>>
    /\ IF end > 0
       THEN \/ /\ start' \in RunStarts(end)
               /\ pc' = "extend"
               /\ result' = result
            \/ /\ end >= 2
               /\ start' = end - 2
               /\ pc' = "done"
               /\ result' = "Err"
       ELSE /\ start' = start
            /\ pc' = "done"
            /\ result' = "Ok"

\* merge, entered by CollapseStep, has run to its return: its arguments and
\* locals are gone, and so is r; nothing in buf is in use any more.
MergeDone ==
    /\ pc \in {"merge_fwd", "merge_bwd"}
    /\ NotCalled
    /\ MergeReturn
    /\ buf' = <<>>
    /\ mR' = 0
    /\ mBase' = 0
    /\ mLen' = 0
    /\ mMid' = 0
    /\ hStart' = 0
    /\ hEnd' = 0
    /\ hDest' = 0
    /\ mRight' = 0
    /\ mOut' = 0
    /\ UNCHANGED <<op, cmpKind, failAt, orig, v, result, i, ihVars, start, end,
                   bs, sel>>

RunsInit(lens) ==
    /\ op = "try_sort_by"
    /\ cmpKind = "any"
    /\ failAt = 0
    /\ orig \in DeepInputs(lens)
    /\ v = orig
    /\ IdleSort
    /\ bs = BsIdle
    /\ sel = SelIdle

InitRuns == RunsInit(DeepLens)

InitRunsFair == RunsInit(FairLens)

NextRuns ==
    \/ MergeSortEntry
    \/ RunFound
    \/ Extend
    \/ CollapseStep
    \/ MergeDone

SpecRuns == InitRuns /\ [][NextRuns]_vars

\* The program goes on as long as it has a step to take.
SpecRunsFair == InitRunsFair /\ [][NextRuns]_vars /\ WF_vars(NextRuns)

(***************************************************************************)
(* Properties of the stable sort.                                          *)
(***************************************************************************)
Range(s) == {s[n] : n \in 1..Len(s)}

Count(s, e) == Cardinality({n \in 1..Len(s) : s[n] = e})

SameMultiset(s, t) ==
    /\ Len(s) = Len(t)
    /\ \A e \in Range(s) \cup Range(t) : Count(s, e) = Count(t, e)

HasNaN(s) == \E n \in 1..Len(s) : s[n].nan

Returned == pc = "done"

IsLong == Len(orig) > MAX_INSERTION

\* The ordering the comparator in use computes when it is a total one.
OrderOf(a, b) ==
    IF cmpKind = "by_key" THEN OptionPartialCmp(KeyOf(a), KeyOf(b))
    ELSE PartialCmp(a, b)

\* The comparator in use is a total (pre)order on the values of the input.
TotalOrderCase ==
    \/ cmpKind = "natural" /\ ~HasNaN(orig)
    \/ cmpKind = "by_key"

NonDescending(s) ==
    \A n \in 1..(Len(s) - 1) : OrderOf(s[n + 1], s[n]) # "Less"

\* C1: when try_sort / try_sort_by / try_sort_by_key returns, Ok or Err, the
\* slice holds exactly the multiset of elements it held before the call:
\* nothing lost, nothing duplicated, no stale copy.
C1_PermutationPreserved ==
    (IsStableSortOp /\ Returned) => SameMultiset(v, orig)

\* C1's case: a long sort in which the comparator returned None inside
\* insert_head or merge (run detection would have returned Err), elements
\* were moved, and the sort returned.
C1_Witness ==
    /\ Returned
    /\ IsLong
    /\ noneSeen
    /\ result = "Ok"
    /\ v # orig

\* C2: try_sort on a sequence of at least two elements one of which is a NaN
\* returns Err.
C2_SingleNaNIsErr ==
    (/\ op = "try_sort"
     /\ Returned
     /\ Len(orig) >= 2
     /\ Cardinality({n \in 1..Len(orig) : orig[n].nan}) = 1)
        => result = "Err"

\* C3: with a comparator that is a total order on the values, the sort
\* returns Ok and the slice is in non-descending order.
C3_TotalOrderSorts ==
    (IsStableSortOp /\ Returned /\ TotalOrderCase)
        => (result = "Ok" /\ NonDescending(v))

\* C3's case: a long input, not in order, sorted through runs and merges.
C3_Witness ==
    /\ Returned
    /\ IsLong
    /\ TotalOrderCase
    /\ Len(runs) = 1
    /\ v # orig
    /\ result = "Ok"

\* C4: in try_sort_by, once the comparator has returned None the sort calls
\* it no more and returns Err.
C4_NoneIsTerminal ==
    (op = "try_sort_by" /\ noneSeen)
        => (afterNone = 0 /\ (Returned => result = "Err"))

\* C5: the sort is stable: with a total preorder comparator, elements that
\* compare equal are in the output in the order they had in the input.
C5_Stable ==
    (IsStableSortOp /\ Returned /\ TotalOrderCase)
        => \A m \in 1..Len(v) : \A n \in (m + 1)..Len(v) :
               OrderOf(v[m], v[n]) = "Equal" => v[m].id < v[n].id

\* C5's case: a long input sorted through a backward merge, in which two
\* equal elements at least MIN_RUN apart in the input ended in input order.
C5_Witness ==
    /\ Returned
    /\ IsLong
    /\ TotalOrderCase
    /\ v # orig
    /\ mOut > 0
    /\ \E m \in 1..Len(v) : \E n \in (m + 1)..Len(v) :
          /\ OrderOf(v[m], v[n]) = "Equal"
          /\ v[n].id - v[m].id >= MIN_RUN

(***************************************************************************)
(* try_sort_unstable, try_sort_unstable_by, try_sort_unstable_by_key       *)
(***************************************************************************)
IsUnstableSortOp ==
    op \in {"try_sort_unstable", "try_sort_unstable_by", "try_sort_unstable_by_key"}

\* The body of each of the three is todo!(): the call panics.
TrySortUnstable ==
    /\ pc = "entry"
    /\ IsUnstableSortOp
    /\ pc' = "panicked"
    /\ result' = "Panic"
    /\ UNCHANGED <<op, cmpKind, failAt, orig, v, calls, noneSeen, afterNone, i,
                   ihVars, runs, start, end, buf, mergeVars, bs, sel>>

InitUnstable ==
    /\ \/ op = "try_sort_unstable" /\ cmpKind = "natural"
       \/ op = "try_sort_unstable_by" /\ cmpKind \in {"natural", "always_none"}
       \/ op = "try_sort_unstable_by_key" /\ cmpKind = "by_key"
    /\ failAt = 0
    /\ orig \in ShortInputs
    /\ v = orig
    /\ IdleSort
    /\ bs = BsIdle
    /\ sel = SelIdle

NextUnstable == TrySortUnstable

SpecUnstable == InitUnstable /\ [][NextUnstable]_vars

\* C6: the unstable sorts always return through their Result without
\* panicking: Ok with the slice in non-descending order when the comparator
\* is total, Err with the slice a permutation of the input otherwise.
C6_UnstableReturnsResult ==
    (IsUnstableSortOp /\ pc # "entry")
        => /\ pc = "done"
           /\ result \in {"Ok", "Err"}
           /\ SameMultiset(v, orig)
           /\ TotalOrderCase => (result = "Ok" /\ NonDescending(v))

(***************************************************************************)
(* try_binary_search, try_binary_search_by_key                             *)
(*                                                                         *)
(* v is the slice.  bs holds the target x and try_binary_search_by_inner's *)
(* locals size, left, right; found and idx are the inner Result (Ok(idx)   *)
(* or Err(idx)) of a call that returned Ok; probes is the set of indices   *)
(* the comparator was called on.                                           *)
(***************************************************************************)
MaxBsLen == 5

MaxBsKey == 3

\* The longest slice searched with a caller-supplied closure.
MaxByLen == 16

IsSearchOp ==
    op \in {"try_binary_search", "try_binary_search_by", "try_binary_search_by_key"}

\* A faulty closure: an undefined comparison is taken for Greater.
BsCompareNoneAsGreater(a, x) ==
    IF a.nan \/ x.nan THEN "Greater" ELSE PartialCmp(a, x)

\* The closure handed to try_binary_search_by: |a| a.partial_cmp(x) for
\* try_binary_search, |a| fk(a)?.partial_cmp(b) for try_binary_search_by_key.
BsCompare(a, x) ==
    IF cmpKind = "by_key"
    THEN IF ~KeyOf(a).some THEN "None"
         ELSE IF KeyOf(a).k < x.k THEN "Less"
         ELSE IF KeyOf(a).k > x.k THEN "Greater"
         ELSE "Equal"
    ELSE PartialCmp(a, x)

\* What the closure in use may return on element a: the derived closures
\* are functions of a and x; a closure the caller hands to
\* try_binary_search_by returns None whatever it is given ("always_none") or
\* anything at all, consistent with an order or not ("any").
BsOutcomes(a, x) ==
    CASE cmpKind = "always_none" -> {"None"}
      [] cmpKind = "any" -> {"Less", "Equal", "Greater", "None"}
      [] OTHER -> {BsCompare(a, x)}

\* A faulty narrowing: on Less the left bound stays on mid.
BsNarrowKeepsMid(c, left, right, mid) ==
    IF c = "Less" THEN [left |-> mid, right |-> right]
    ELSE [left |-> left, right |-> mid]

\* A faulty narrowing: on Greater the right bound skips the element below mid.
BsNarrowSkips(c, left, right, mid) ==
    IF c = "Less" THEN [left |-> mid + 1, right |-> right]
    ELSE [left |-> left, right |-> mid - 1]

\* The new bounds after a probe of mid that compared Less or Greater.
BsNarrow(c, left, right, mid) ==
    IF c = "Less" THEN [left |-> mid + 1, right |-> right]
    ELSE [left |-> left, right |-> mid]

\* try_binary_search_by_inner up to its loop.
BsEntry ==
    /\ pc = "entry"
    /\ IsSearchOp
    /\ bs' = [bs EXCEPT !.size = Len(v), !.left = 0, !.right = Len(v),
                         !.at = [left |-> 0, mid |-> 0, right |-> Len(v)]]
    /\ pc' = "bs_loop"
    /\ NotCalled
    /\ UNCHANGED <<op, cmpKind, failAt, orig, v, result, i, ihVars, runs, start,
                   end, buf, mergeVars, sel>>

\* One iteration of `while size > 0`, or the return after it.  bs.at keeps
\* left, mid and right as they were at the latest probe, bs.iters counts the
\* iterations.
BsStep ==
    /\ pc = "bs_loop"
    /\ UNCHANGED <<op, cmpKind, failAt, orig, v, i, ihVars, runs, start, end, buf,
                   mergeVars, sel>>
    /\ IF bs.size > 0
       THEN LET mid == bs.left + (bs.size \div 2)
                at  == [left |-> bs.left, mid |-> mid, right |-> bs.right]
            IN  \E c \in BsOutcomes(At(v, mid), bs.x) :
                /\ Called(IF c = "None" THEN "N" ELSE "T")
                /\ IF c = "None"
                   THEN /\ result' = "Err"
                        /\ pc' = "done"
                        /\ bs' = [bs EXCEPT !.probes = @ \cup {mid}, !.at = at,
                                            !.iters = @ + 1]
                   ELSE IF c = "Equal"
                   THEN /\ result' = "Ok"
                        /\ pc' = "done"
                        /\ bs' = [bs EXCEPT !.probes = @ \cup {mid}, !.at = at,
                                            !.iters = @ + 1,
                                            !.found = TRUE, !.idx = mid]
                   ELSE LET nb == BsNarrow(c, bs.left, bs.right, mid)
                        IN  /\ bs' = [bs EXCEPT !.probes = @ \cup {mid}, !.at = at,
                                                !.iters = @ + 1,
                                                !.left = nb.left,
                                                !.right = nb.right,
                                                !.size = nb.right - nb.left]
                            /\ UNCHANGED <<pc, result>>
       ELSE /\ NotCalled
            /\ result' = "Ok"
            /\ pc' = "done"
            /\ bs' = [bs EXCEPT !.found = FALSE, !.idx = bs.left]

BsCodes == UNION {[1..n -> 0..MaxBsKey] : n \in 0..MaxBsLen}

\* Every slice of at most MaxBsLen elements with keys NaN or 1..MaxBsKey, in
\* order or not.
BsInputs == {MkSeq(c) : c \in BsCodes}

\* The targets: every key of the slices, one below and one above them, and
\* (for try_binary_search) NaN.
BsTargets == {Elem(k, 0 - 1) : k \in 0..(MaxBsKey + 1)}

\* The slices searched with a caller-supplied closure: every length up to
\* MaxByLen, in no order.
ByInputs == {MkSeq(Block("saw", n)) : n \in 0..MaxByLen}

\* The state of the search before the call, with target x.
BsStart(x) ==
    [active |-> TRUE, x |-> x, size |-> 0, left |-> 0, right |-> 0,
     found |-> FALSE, idx |-> 0, probes |-> {}, iters |-> 0,
     at |-> [left |-> 0, mid |-> 0, right |-> 0]]

InitSearch ==
    /\ \/ /\ op = "try_binary_search"
          /\ cmpKind = "natural"
          /\ \E x \in BsTargets \cup {NaNElem(0 - 1)} : bs = BsStart(x)
          /\ orig \in BsInputs
       \/ /\ op = "try_binary_search_by_key"
          /\ cmpKind = "by_key"
          /\ \E x \in BsTargets : bs = BsStart(x)
          /\ orig \in BsInputs
       \/ /\ op = "try_binary_search_by"
          /\ cmpKind \in {"always_none", "any"}
          /\ bs = BsStart(NoElem)
          /\ orig \in ByInputs
    /\ failAt = 0
    /\ v = orig
    /\ IdleSort
    /\ sel = SelIdle

NextSearch ==
    \/ BsEntry
    \/ BsStep

SpecSearch == InitSearch /\ [][NextSearch]_vars

\* s is sorted ascending under the natural order and holds no NaN.
SortedAscending(s) ==
    /\ ~HasNaN(s)
    /\ \A n \in 1..(Len(s) - 1) : s[n].k <= s[n + 1].k

\* s with its NaNs taken out.
RECURSIVE WithoutNaN(_)
WithoutNaN(s) ==
    IF s = <<>> THEN <<>>
    ELSE IF Head(s).nan THEN WithoutNaN(Tail(s))
    ELSE <<Head(s)>> \o WithoutNaN(Tail(s))

NaNCount(s) == Cardinality({n \in 1..Len(s) : s[n].nan})

\* C7: on a slice sorted ascending under a total order, duplicates allowed,
\* try_binary_search returns Ok(Ok(i)) only with element i equal to the
\* target, and otherwise Ok(Err(i)) with 0 <= i <= len, every element before
\* i less than the target and every element from i on greater or equal; it
\* never returns Ok(Err(_)) when the target is present.
C7_SearchCorrect ==
    (/\ op = "try_binary_search"
     /\ Returned
     /\ SortedAscending(v)
     /\ ~bs.x.nan)
        => /\ result = "Ok"
           /\ bs.found => (bs.idx \in 0..(Len(v) - 1) /\ At(v, bs.idx).k = bs.x.k)
           /\ ~bs.found =>
                 /\ bs.idx \in 0..Len(v)
                 /\ \A n \in 1..bs.idx : v[n].k < bs.x.k
                 /\ \A n \in (bs.idx + 1)..Len(v) : v[n].k >= bs.x.k
                 /\ \A n \in 1..Len(v) : v[n].k # bs.x.k

\* C7's case: a sorted slice with a duplicated key, the target absent and
\* strictly inside it, found absent after the longest search.
C7_Witness ==
    /\ op = "try_binary_search"
    /\ Returned
    /\ SortedAscending(v)
    /\ Len(v) = MaxBsLen
    /\ \E n \in 1..(Len(v) - 1) : v[n].k = v[n + 1].k
    /\ ~bs.found
    /\ bs.idx > 0
    /\ bs.idx < Len(v)
    /\ calls >= 2

\* The slice is a sorted one into which a single NaN was inserted, and the
\* target is comparable.
OneNaNInSortedCase ==
    /\ op = "try_binary_search"
    /\ NaNCount(v) = 1
    /\ SortedAscending(WithoutNaN(v))
    /\ ~bs.x.nan

\* C8, as claimed: with a single NaN anywhere in an otherwise sorted slice
\* and a comparable target, try_binary_search returns Err.
C8_SingleNaNIsErr ==
    (Returned /\ OneNaNInSortedCase) => result = "Err"

\* C8, amended: it returns Err exactly when the search probes the NaN (as it
\* does when the NaN is at index len / 2, the first probe); a NaN the search
\* never probes goes unnoticed and the call returns Ok.
C8_ErrIffNaNProbed ==
    (Returned /\ OneNaNInSortedCase)
        => /\ result \in {"Ok", "Err"}
           /\ result = "Err" <=> (\E n \in bs.probes : At(v, n).nan)
           /\ At(v, Len(v) \div 2).nan => result = "Err"

\* C8's case: the NaN is there, was not probed, and the search returned Ok
\* after probing other elements.
C8_Witness ==
    /\ Returned
    /\ OneNaNInSortedCase
    /\ result = "Ok"
    /\ bs.probes # {}

(***************************************************************************)
(* try_min, try_max, try_min_by_key, try_max_by_key (try_select_by)        *)
(*                                                                         *)
(* v holds the items of the iterator in order.  sel holds `target`, the    *)
(* number of items taken from the iterator, and the accumulator of the     *)
(* try_fold (None, or Some(e)).                                            *)
(***************************************************************************)
IsMinOp == op \in {"try_min", "try_min_by", "try_min_by_key"}

IsMaxOp == op \in {"try_max", "try_max_by", "try_max_by_key"}

IsSelectOp == IsMinOp \/ IsMaxOp

\* The `target` each entry point hands to try_select_by.
SelTarget == IF IsMinOp THEN "Greater" ELSE "Less"

\* A faulty closure: an undefined comparison is passed on as Equal.
SelCompareNoneAsEqual(a, b) ==
    IF PartialCmp(a, b) = "None" THEN "Equal" ELSE PartialCmp(a, b)

\* The closure handed to try_select_by: |a, b| a.partial_cmp(b), or
\* |a, b| fk(a).partial_cmp(&fk(b)) for the by_key entry points, or the
\* closure of a try_min_by / try_max_by caller that returns None whatever it
\* is given.
SelCompare(a, b) ==
    IF cmpKind = "by_key" THEN OptionPartialCmp(KeyOf(a), KeyOf(b))
    ELSE IF cmpKind = "always_none" THEN "None"
    ELSE PartialCmp(a, b)

\* A faulty end of the fold: an accumulator that is still None is turned into
\* the error.
SelFinishFlattens(acc) == IF acc.some THEN "Ok" ELSE "Err"

\* try_fold has run to the end of the iterator: it returns Some(acc), which
\* ok_or turns into Ok(acc), whether acc is None or Some(e).
SelFinish(acc) == "Ok"

\* A faulty fold: an item that compares Equal to the accumulator replaces it.
SelReplacesOnEqual(c, target) == c = target \/ c = "Equal"

\* The guard `compare(&m, &n)? == target`: the new item replaces the
\* accumulator.
SelReplaces(c, target) == c = target

\* try_select_by up to the first item.
SelEntry ==
    /\ pc = "entry"
    /\ IsSelectOp
    /\ sel' = [sel EXCEPT !.target = SelTarget, !.taken = 0,
                          !.acc = [some |-> FALSE, e |-> NoElem]]
    /\ pc' = "sel_loop"
    /\ NotCalled
    /\ UNCHANGED <<op, cmpKind, failAt, orig, v, result, i, ihVars, runs, start,
                   end, buf, mergeVars, bs>>

\* One step of the try_fold: the closure on the next item, or the end of the
\* iterator.
SelStep ==
    /\ pc = "sel_loop"
    /\ UNCHANGED <<op, cmpKind, failAt, orig, v, i, ihVars, runs, start, end, buf,
                   mergeVars, bs>>
    /\ IF sel.taken < Len(v)
       THEN LET n == At(v, sel.taken)
            IN  IF ~sel.acc.some
                THEN /\ NotCalled
                     /\ sel' = [sel EXCEPT !.taken = @ + 1,
                                           !.acc = [some |-> TRUE, e |-> n]]
                     /\ UNCHANGED <<pc, result>>
                ELSE LET c == SelCompare(sel.acc.e, n)
                     IN  /\ Called(IF c = "None" THEN "N" ELSE "T")
                         /\ IF c = "None"
                            THEN /\ result' = "Err"
                                 /\ pc' = "done"
                                 /\ sel' = [sel EXCEPT !.taken = @ + 1]
                            ELSE /\ sel' = [sel EXCEPT
                                              !.taken = @ + 1,
                                              !.acc = IF SelReplaces(c, sel.target)
                                                      THEN [some |-> TRUE, e |-> n]
                                                      ELSE @]
                                 /\ UNCHANGED <<pc, result>>
       ELSE /\ NotCalled
            /\ result' = SelFinish(sel.acc)
            /\ pc' = "done"
            /\ sel' = sel

InitSelect ==
    /\ \/ /\ op \in {"try_min", "try_max"}
          /\ cmpKind = "natural"
          /\ orig \in ShortInputs
       \/ /\ op \in {"try_min_by_key", "try_max_by_key"}
          /\ cmpKind = "by_key"
          /\ orig \in ShortInputs
       \/ /\ op \in {"try_min_by", "try_max_by"}
          /\ cmpKind = "always_none"
          /\ orig \in ShortInputsNoNaN
    /\ failAt = 0
    /\ v = orig
    /\ IdleSort
    /\ bs = BsIdle
    /\ sel = [active |-> TRUE, target |-> "none", taken |-> 0,
              acc |-> [some |-> FALSE, e |-> NoElem]]

NextSelect ==
    \/ SelEntry
    \/ SelStep

SpecSelect == InitSelect /\ [][NextSelect]_vars

(***************************************************************************)
(* The searches and the selections together.                               *)
(***************************************************************************)
InitLookup == InitSearch \/ InitSelect

NextLookup ==
    \/ BsEntry
    \/ BsStep
    \/ SelEntry
    \/ SelStep

SpecLookup == InitLookup /\ [][NextLookup]_vars

\* Iterator::min_by of the standard library on a non-empty s, under the
\* ordering in use: a left-to-right reduce that keeps x unless
\* compare(x, y) is Greater.
RECURSIVE StdMinByFrom(_, _)
StdMinByFrom(x, s) ==
    IF s = <<>> THEN x
    ELSE StdMinByFrom(IF OrderOf(x, Head(s)) = "Greater" THEN Head(s) ELSE x, Tail(s))

StdMinBy(s) == StdMinByFrom(Head(s), Tail(s))

\* Iterator::max_by of the standard library on a non-empty s: a left-to-right
\* reduce that keeps x only if compare(x, y) is Greater.
RECURSIVE StdMaxByFrom(_, _)
StdMaxByFrom(x, s) ==
    IF s = <<>> THEN x
    ELSE StdMaxByFrom(IF OrderOf(x, Head(s)) = "Greater" THEN x ELSE Head(s), Tail(s))

StdMaxBy(s) == StdMaxByFrom(Head(s), Tail(s))

\* C9: on a non-empty input whose comparisons are all defined, try_min (and
\* try_min_by_key, whose derived comparator is total) returns Ok(Some(e)) with e the leftmost of the elements no other element
\* is smaller than, the element Iterator::min_by returns.
C9_MinIsFirstMinimum ==
    (IsMinOp /\ Returned /\ v # <<>> /\ TotalOrderCase)
        => /\ result = "Ok"
           /\ sel.acc.some
           /\ sel.acc.e \in Range(v)
           /\ \A n \in 1..Len(v) : OrderOf(v[n], sel.acc.e) # "Less"
           /\ \A n \in 1..Len(v) :
                 OrderOf(v[n], sel.acc.e) = "Equal" => sel.acc.e.id <= v[n].id
           /\ sel.acc.e = StdMinBy(v)

\* C9's case: the minimum occurs twice, not at the front, and the fold has
\* passed over the second occurrence.
C9_Witness ==
    /\ op = "try_min"
    /\ Returned
    /\ TotalOrderCase
    /\ result = "Ok"
    /\ sel.acc.some
    /\ sel.acc.e.id > 0
    /\ \E n \in 1..Len(v) :
          /\ v[n].id > sel.acc.e.id
          /\ PartialCmp(v[n], sel.acc.e) = "Equal"

\* C10: on a non-empty input whose comparisons are all defined, try_max
\* returns the element, by position, that Iterator::max_by returns: the last
\* of the maxima when several elements compare Equal to the maximum.
C10_MaxMatchesStd ==
    (IsMaxOp /\ Returned /\ v # <<>> /\ TotalOrderCase)
        => /\ result = "Ok"
           /\ sel.acc.some
           /\ sel.acc.e = StdMaxBy(v)

\* The position (from 1) of the single NaN of s.
NaNPos(s) == CHOOSE n \in 1..Len(s) : s[n].nan

\* The position (from 1) of the item at which the fold first compares with the
\* NaN: the NaN itself, or the second item when the NaN comes first.
FirstNoneItem(s) == IF NaNPos(s) = 1 THEN 2 ELSE NaNPos(s)

\* The input has at least two items and exactly one of them is NaN.
OneNaNSelectCase ==
    /\ op \in {"try_min", "try_max"}
    /\ Len(v) >= 2
    /\ NaNCount(v) = 1

\* C11: with two or more items of which one is NaN (first, in the middle or
\* last), try_min and try_max return Err; the fold ends at the first
\* comparison that yields None: that call is the last one, and the item
\* compared there is the last one taken from the iterator.
C11_NaNStopsFold ==
    OneNaNSelectCase
        => /\ noneSeen => Returned
           /\ afterNone = 0
           /\ Returned =>
                 /\ result = "Err"
                 /\ noneSeen
                 /\ calls = FirstNoneItem(v) - 1
                 /\ sel.taken = FirstNoneItem(v)

\* C11's case: the NaN is in the middle, the fold has returned Err after
\* defined comparisons and with items still left in the iterator.
C11_Witness ==
    /\ OneNaNSelectCase
    /\ Returned
    /\ result = "Err"
    /\ NaNPos(v) > 1
    /\ NaNPos(v) < Len(v)
    /\ calls >= 2
    /\ sel.taken < Len(v)

\* An element for which the key function returns None has taken part in a
\* comparison: the fold has compared it, the search has probed it, or the
\* sort of two or more elements has returned.
MissingKeyCompared ==
    CASE IsSelectOp -> sel.taken >= 2 /\ \E n \in 1..sel.taken : v[n].nan
      [] IsSearchOp -> \E n \in bs.probes : At(v, n).nan
      [] OTHER -> Returned /\ Len(orig) >= 2 /\ HasNaN(orig)

\* C12: in the by_key variants, once an element whose key is None has taken
\* part in a comparison the operation returns failure.
C12_MissingKeyIsErr ==
    (cmpKind = "by_key" /\ Returned /\ MissingKeyCompared) => result = "Err"

\* The input is already in non-descending order under a total comparator.
SortedInputCase ==
    /\ IsStableSortOp
    /\ TotalOrderCase
    /\ NonDescending(orig)

\* C13: on an input already in non-descending order under a total comparator
\* the sort never moves an element (every position holds the element it held
\* before, at every step and at the return) and returns Ok; and since every
\* Ok return under a total comparator leaves a non-descending slice, a
\* second sort of it changes nothing.
C13_SortedInputUntouched ==
    /\ SortedInputCase => (v = orig /\ (Returned => result = "Ok"))
    /\ (IsStableSortOp /\ TotalOrderCase /\ Returned /\ result = "Ok")
          => NonDescending(v)

\* C13's case: a sorted input of more than MAX_INSERTION elements, with
\* equal neighbours and with unequal ones, has been sorted.
C13_Witness ==
    /\ SortedInputCase
    /\ IsLong
    /\ Returned
    /\ result = "Ok"
    /\ v = orig
    /\ \E n \in 1..(Len(v) - 1) : OrderOf(v[n], v[n + 1]) = "Equal"
    /\ \E n \in 1..(Len(v) - 1) : OrderOf(v[n], v[n + 1]) = "Less"

\* A sorted input of at most MAX_INSERTION elements with equal neighbours
\* has been sorted.
C13_WitnessShort ==
    /\ SortedInputCase
    /\ ~IsLong
    /\ Returned
    /\ Len(v) = MaxShortLen
    /\ \E n \in 1..(Len(v) - 1) : OrderOf(v[n], v[n + 1]) = "Equal"

\* C14: on an empty input the closure is never called, and the call returns
\* Ok: Ok(None) from try_min / try_max and their _by and _by_key forms,
\* Ok(Err(0)) from the binary searches; so also when the closure would
\* return None on every call.
C14_EmptyInputNoCall ==
    (orig = <<>> /\ (IsSelectOp \/ IsSearchOp))
        => /\ calls = 0
           /\ ~noneSeen
           /\ Returned =>
                 /\ result = "Ok"
                 /\ IsSelectOp => (~sel.acc.some /\ sel.taken = 0)
                 /\ IsSearchOp => (~bs.found /\ bs.idx = 0 /\ bs.iters = 0)

\* C14's case: try_min_by / try_max_by has returned on an empty iterator
\* with a closure that returns None on every call.
C14_Witness ==
    /\ orig = <<>>
    /\ op \in {"try_min_by", "try_max_by"}
    /\ cmpKind = "always_none"
    /\ Returned

\* try_binary_search_by has returned on an empty slice with a closure that
\* returns None on every call.
C14_WitnessSearch ==
    /\ orig = <<>>
    /\ op = "try_binary_search_by"
    /\ cmpKind = "always_none"
    /\ Returned

\* floor(log2(n)) for n >= 1.
RECURSIVE Log2Floor(_)
Log2Floor(n) == IF n <= 1 THEN 0 ELSE 1 + Log2Floor(n \div 2)

\* C17: in a binary search of n elements, whatever the closure returns:
\* every probe has 0 <= left <= mid < right <= n; there is one closure call
\* per iteration; an iteration that does not return leaves right - left
\* smaller than it found it; the calls number at most floor(log2(n)) + 1, and
\* exactly one when n = 1.
C17_ProbesInBoundsAndLogCalls ==
    (IsSearchOp /\ pc # "entry")
        => /\ 0 <= bs.left /\ bs.left <= bs.right /\ bs.right <= Len(v)
           /\ pc = "bs_loop" => bs.size = bs.right - bs.left
           /\ calls = bs.iters
           /\ bs.probes \subseteq 0..(Len(v) - 1)
           /\ bs.iters >= 1 =>
                 /\ 0 <= bs.at.left
                 /\ bs.at.left <= bs.at.mid
                 /\ bs.at.mid < bs.at.right
                 /\ bs.at.right <= Len(v)
                 /\ bs.at.mid \in bs.probes
           /\ (bs.iters >= 1 /\ pc = "bs_loop") =>
                 bs.right - bs.left < bs.at.right - bs.at.left
           /\ Len(v) >= 1 => calls <= Log2Floor(Len(v)) + 1
           /\ (Len(v) = 1 /\ Returned) => calls = 1

\* C17's case: a search of the longest slice, with an arbitrary closure, has
\* returned after floor(log2(n)) + 1 calls.
C17_Witness ==
    /\ op = "try_binary_search_by"
    /\ cmpKind = "any"
    /\ Len(v) = MaxByLen
    /\ Returned
    /\ calls = Log2Floor(Len(v)) + 1

\* Invariant 1 and invariant 2 of the run stack, on all of rs.
RunStackInvariants(rs) ==
    /\ \A n \in 1..(Len(rs) - 1) : At(rs, n - 1).len > At(rs, n).len
    /\ \A n \in 2..(Len(rs) - 1) :
          At(rs, n - 2).len > At(rs, n - 1).len + At(rs, n).len

\* C15: whenever collapse has returned None, every run of the stack is
\* longer than the run above it, and longer than the two runs above it
\* together, whatever run lengths were pushed.
C15_WholeStackInvariants ==
    (IsStableSortOp /\ IsLong /\ pc = "scan") => RunStackInvariants(runs)

\* C15's case: collapse has returned None on a stack of four runs, with more
\* runs to come, invariant 2 holding by one element at the bottom and
\* invariant 1 by one element at the top.
C15_Witness ==
    /\ IsLong
    /\ pc = "scan"
    /\ end > 0
    /\ Len(runs) = 4
    /\ At(runs, 0).len = At(runs, 1).len + At(runs, 2).len + 1
    /\ At(runs, 2).len = At(runs, 3).len + 1

\* The runs of rs are non-empty and lie side by side, the lowest one ending
\* at the end of the slice.
RunsTile(rs) ==
    /\ \A n \in 0..(Len(rs) - 1) : At(rs, n).len >= 1
    /\ rs # <<>> => At(rs, 0).start + At(rs, 0).len = Len(v)
    /\ \A n \in 1..(Len(rs) - 1) :
          At(rs, n).start + At(rs, n).len = At(rs, n - 1).start

Min(a, b) == IF a <= b THEN a ELSE b

\* C16: the runs on the stack are non-empty and side by side; in every
\* merge, the two runs handed to merge are adjacent and non-empty, merge is
\* called on exactly their elements with mid the length of the left one, and
\* buf holds min(mid, len - mid) elements, at most floor(N / 2).
C16_MergeAdjacentWithinBuf ==
    (IsStableSortOp /\ IsLong)
        => /\ RunsTile(runs)
           /\ pc \in {"merge_fwd", "merge_bwd"} =>
                 LET left  == At(runs, mR + 1)
                     right == At(runs, mR)
                 IN  /\ left.start + left.len = right.start
                     /\ left.len >= 1
                     /\ right.len >= 1
                     /\ mBase = left.start
                     /\ mMid = left.len
                     /\ mLen = left.len + right.len
                     /\ Len(buf) = Min(mMid, mLen - mMid)
                     /\ Len(buf) <= Len(v) \div 2

\* C16's case: merge is entered on the two halves of the slice, with buf
\* filled to its capacity.
C16_Witness ==
    /\ IsLong
    /\ pc \in {"merge_fwd", "merge_bwd"}
    /\ Len(runs) = 2
    /\ mLen = Len(v)
    /\ Len(buf) = Len(v) \div 2

\* merge is entered on the lower pair of three runs, the right run being the
\* shorter.
C16_WitnessLowerPair ==
    /\ IsLong
    /\ pc = "merge_bwd"
    /\ Len(runs) >= 3
    /\ mR = Len(runs) - 3

\* The debug assertion after the main loop of merge_sort.
FinalAssertion ==
    /\ Len(runs) = 1
    /\ At(runs, 0).start = 0
    /\ At(runs, 0).len = Len(v)

\* The push of a run moves end down.
EndDecreases == (pc = "extend" /\ pc' = "collapse") => end' < end

\* The return of a merge leaves one run fewer on the stack.
MergeRemovesRun ==
    (pc \in {"merge_fwd", "merge_bwd"} /\ pc' = "collapse")
        => Len(runs') = Len(runs) - 1

\* C18: on a slice of more than MAX_INSERTION elements every outer iteration
\* of merge_sort's main loop moves end down and every merge takes one run
\* off the stack; merge_sort returns; and when it returns Some(()) the
\* stack holds one run, v[0..len), as the debug assertion says.
C18_LoopEndsWithOneRun ==
    /\ []((IsStableSortOp /\ IsLong /\ Returned /\ result = "Ok") => FinalAssertion)
    /\ [][EndDecreases /\ MergeRemovesRun]_vars
    /\ <>Returned

\* C18's case: merge_sort has returned Some(()) on the longest slice.
C18_Witness ==
    /\ IsLong
    /\ Len(v) = MaxFairLen
    /\ Returned
    /\ result = "Ok"
    /\ end = 0
    /\ runs # <<>>

====
